---- MODULE Spec2Model ----
(***************************************************************************)
(* A model of the CorrNMF fitting engine of salamander:                    *)
(*   CorrNMFDet.fit and its update steps  (nmf_framework/corrnmf_det.py)   *)
(*   CorrNMF._initialize, compute_exposures, objective_function,           *)
(*   compute_reconstruction_errors, compute_correlation_scaled             *)
(*                                         (nmf_framework/corrnmf.py)      *)
(*   SignatureNMF.__init__                 (nmf_framework/signature_nmf.py)*)
(*                                                                         *)
(* fit is modelled statement by statement: pc is the position of the       *)
(* running fit call.  The numerical routines whose bodies are not part of  *)
(* the sources (update_alpha, update_W, update_p_unnormalized, the Newton  *)
(* solver, elbo_corrnmf, the surrogate objective) are uninterpreted: the   *)
(* array a routine returns is identified by the routine and the iteration  *)
(* of the call (a record [by, at]), and a derived array by the arguments   *)
(* it was computed from.  Two arrays are equal in the model exactly when   *)
(* they come from the same write.  The scalar objective values decide the  *)
(* control flow of fit and are integers drawn from small sets.             *)
(*                                                                         *)
(* fit passes given_signatures, given_signature_embeddings and             *)
(* given_sample_embeddings to _initialize; they are bound here to the      *)
(* keys 'asignatures', 'signature_embeddings' and 'sample_embeddings' of   *)
(* given_parameters.  fit's self.W, self.alpha, self.L, self.U are the     *)
(* signature matrix, the sample scalings and the two embedding sets that   *)
(* _initialize creates.                                                    *)
(***************************************************************************)
EXTENDS Integers, Sequences, FiniteSets, TLC

VARIABLES
    \* SignatureNMF.__init__ / CorrNMF.__init__
    min_iterations, max_iterations, tol, history, variance,
    \* the arguments of the running fit call
    given_signatures, given_signature_embeddings, given_sample_embeddings,
    fit_history,
    \* the DataFrame passed as given_signatures, self.mutation_types
    given_signatures_frame, mutation_types,
    \* what the last fit call has returned
    returned,
    \* model parameters
    W, signature_scalings, alpha, L, U, sigma_sq, exposures,
    \* locals of fit
    pc, n_iteration, converged, of_values, sof_values, p, idx,
    \* _update_p on numbers: self.W, self.exposures.values, the array returned
    W_num, E_num, p_num,
    \* compute_correlation_scaled on numbers: asignatures.obsm["embeddings"],
    \* adata.obsm["embeddings"], asignatures.obsp["correlation"],
    \* adata.obsp["X_correlation"]
    signature_embeddings, sample_embeddings, correlation, X_correlation,
    \* one pass of _update_LU with its minimize calls: the last
    \* OptimizeResult, the sub-problems solved so far, L and U when the pass
    \* began
    res, solved, L_start, U_start,
    \* the locals outer_prods_U of _update_L and outer_prods_L of _update_U
    outer_prods_U, outer_prods_L,
    \* the clipping in _update_l / _update_u on numbers: the vector the solver
    \* returned, the columns stored from it
    x_solver, l_stored, u_stored,
    \* _initialize with a dictionary of given parameters: self.dim_embeddings
    \* and the argument given_parameters
    dim_embeddings, given_parameters

vars == <<min_iterations, max_iterations, tol, history, variance,
          given_signatures, given_signature_embeddings,
          given_sample_embeddings, fit_history,
          given_signatures_frame, mutation_types, returned,
          W, signature_scalings, alpha, L, U, sigma_sq, exposures,
          pc, n_iteration, converged, of_values, sof_values, p, idx,
          W_num, E_num, p_num,
          signature_embeddings, sample_embeddings, correlation, X_correlation,
          res, solved, L_start, U_start, outer_prods_U, outer_prods_L,
          x_solver, l_stored, u_stored, dim_embeddings, given_parameters>>

fit_vars == <<min_iterations, max_iterations, tol, history, variance,
              given_signatures, given_signature_embeddings,
              given_sample_embeddings, fit_history,
              given_signatures_frame, mutation_types, returned,
              W, signature_scalings, alpha, L, U, sigma_sq, exposures,
              pc, n_iteration, converged, of_values, sof_values, p, idx>>
aux_vars == <<W_num, E_num, p_num>>
corr_vars == <<signature_embeddings, sample_embeddings, correlation,
               X_correlation>>
pass_vars == <<res, solved, L_start, U_start, outer_prods_U, outer_prods_L>>
clip_vars == <<x_solver, l_stored, u_stored>>
init_vars == <<dim_embeddings, given_parameters>>
detail_vars == <<res, solved, L_start, U_start, outer_prods_U, outer_prods_L,
                 x_solver, l_stored, u_stored, dim_embeddings,
                 given_parameters>>
config_vars == <<min_iterations, max_iterations, tol>>
arg_vars == <<given_signatures, given_signature_embeddings,
              given_sample_embeddings, fit_history,
              given_signatures_frame, mutation_types>>

----------------------------------------------------------------------------
(* Bounds *)

MaxIterBound == 2
NumSignatures == 2
NumSamples == 3

Signatures == 1..NumSignatures
Samples == 1..NumSamples

\* tol as a fraction num/den, den > 0
Tols == {[num |-> 1, den |-> 2], [num |-> 2, den |-> 1]}

\* the values an objective evaluation may return
ObjVals == {-1, 0, 1}

\* the while loop of fit cannot be entered beyond this iteration number
IterCap == MaxIterBound + 1

Min(a, b) == IF a <= b THEN a ELSE b
Max(a, b) == IF a >= b THEN a ELSE b
Abs(a) == IF a < 0 THEN -a ELSE a

----------------------------------------------------------------------------
(* Arrays as results of writes *)

Written(by, at) == [by |-> by, at |-> at]
Unset == Written("unset", 0)

\* _utils_corrnmf.compute_exposures(signature scalings, sample scalings,
\* signature embeddings, sample embeddings): E[k,d] =
\* exp(alpha0[k] + alpha[d] + L[:,k].U[:,d]), a function of its four arguments
ComputeExposures(sigscal, samscal, sigemb, samemb) ==
    [signature_scalings |-> sigscal, sample_scalings |-> samscal,
     signature_embeddings |-> sigemb, sample_embeddings |-> samemb]

\* the exposures the current parameters determine
CurrentExposures == ComputeExposures(signature_scalings, alpha, L, U)

NoExposures ==
    ComputeExposures(Unset, Unset, [k \in Signatures |-> Unset],
                     [d \in Samples |-> Unset])

\* update_p_unnormalized(W, E), normalised and clipped: a function of W and E
AuxiliaryOf(w, e, n) == [W |-> w, exposures |-> e, at |-> n]
NoP == AuxiliaryOf(Unset, NoExposures, 0)

\* one objective evaluation: which function, at which iteration, its value
Evaluation(fn, n, v) == [fn |-> fn, at |-> n, val |-> v]

----------------------------------------------------------------------------
(* The convergence test, corrnmf_det.py:227-230 *)

\* mutant: the magnitude of the relative change is compared with tol
RelChangeLess_Magnitude(cur, prev, t) ==
    Abs(prev) # 0 /\ Abs(cur - prev) * t.den < t.num * Abs(prev)

\* rel_change < tol, with rel_change = (cur - prev) / np.abs(prev) in IEEE
\* arithmetic: x/0 is +inf, -inf or nan, and nan < tol is False
RelChangeLess(cur, prev, t) ==
    IF Abs(prev) = 0
    THEN cur - prev < 0
    ELSE (cur - prev) * t.den < t.num * Abs(prev)

\* mutants of Converged: no stop at max_iterations; "or" for "and"
Converged_NoMaxStop(rel_less, n, min_it, max_it) ==
    rel_less /\ n >= min_it

Converged_OrForAnd(rel_less, n, min_it, max_it) ==
    (rel_less \/ n >= min_it) \/ (n >= max_it)

Converged(rel_less, n, min_it, max_it) ==
    (rel_less /\ n >= min_it) \/ (n >= max_it)

\* mutants: the optional updates run unconditionally
UpdatesL_Always(gse) == TRUE
UpdatesW_Always(gs) == TRUE

\* the conditions under which the optional updates run
UpdatesL(gse) == gse = "None"
UpdatesU(gsa) == gsa = "None"
UpdatesW(gs) == gs = "None"

\* mutant: the whole list, the value from before the loop included
HistorySlice_Whole(values) == values

\* of_values[1:]
HistorySlice(values) == Tail(values)

----------------------------------------------------------------------------
(* The compatibility check of given signatures, signature_nmf.py:233-253.  *)
(* A DataFrame is known by its index (the mutation types, in order) and    *)
(* its number of columns.                                                  *)

DataFrame(index, n_columns) == [index |-> index, n_columns |-> n_columns]

\* given_signatures=None
NoFrame == DataFrame(<< >>, -1)

\* data.index of the count data passed to fit
DataMutationTypes == <<"C>A", "C>G">>

\* the given_signatures arguments fit is called with
GivenSignaturesArgs ==
    {NoFrame} \cup
    {DataFrame(index, n) :
        index \in {<<"C>A", "C>G">>, <<"C>G", "C>A">>, <<"C>A">>,
                   <<"C>A", "C>G", "C>T">>},
        n \in {NumSignatures - 1, NumSignatures, NumSignatures + 1}}

\* mutant: the mutation types are compared as sets
ArrayEqual_Unordered(a, b) ==
    {a[i] : i \in DOMAIN a} = {b[i] : i \in DOMAIN b}

\* np.array_equal(a, b): same shape and equal element by element
ArrayEqual(a, b) ==
    /\ Len(a) = Len(b)
    /\ \A i \in 1..Len(a) : a[i] = b[i]

\* compatible = np.array_equal(given_mutation_types, self.mutation_types)
\*              and given_signatures.shape[1] == self.n_signatures
Compatible(frame, types, n_signatures) ==
    /\ ArrayEqual(frame.index, types)
    /\ frame.n_columns = n_signatures

\* what fit holds in given_signatures once the check has run: None, or a
\* frame the check let pass, or a frame for which it raises
CheckGivenSignatures(frame, types, n_signatures) ==
    IF frame = NoFrame THEN "None"
    ELSE IF Compatible(frame, types, n_signatures) THEN "compatible"
    ELSE "incompatible"

----------------------------------------------------------------------------
(* Construction *)

\* the value of a call that has not returned
NotReturned == "nothing"

\* the state of a model object on which fit has not been called
Constructed ==
    /\ history = [key \in {} |-> << >>]
    /\ variance = Written("1.0", 0)
    /\ given_signatures = "None"
    /\ given_signature_embeddings = "None"
    /\ given_sample_embeddings = "None"
    /\ fit_history = FALSE
    /\ given_signatures_frame = NoFrame
    /\ mutation_types = << >>
    /\ returned = NotReturned
    /\ W = Unset
    /\ signature_scalings = Unset
    /\ alpha = Unset
    /\ L = [k \in Signatures |-> Unset]
    /\ U = [d \in Samples |-> Unset]
    /\ sigma_sq = Unset
    /\ exposures = NoExposures
    /\ pc = "idle"
    /\ n_iteration = 0
    /\ converged = FALSE
    /\ of_values = << >>
    /\ sof_values = << >>
    /\ p = NoP
    /\ idx = 0

\* no numeric arrays are under study
NoAuxiliary == W_num = << >> /\ E_num = << >> /\ p_num = << >>
NoCorrelation ==
    /\ signature_embeddings = << >>
    /\ sample_embeddings = << >>
    /\ correlation = << >>
    /\ X_correlation = << >>

\* no pass of _update_LU and no clipping are under study
NoResult == [kind |-> "none"]
NoPass ==
    /\ res = NoResult
    /\ solved = << >>
    /\ L_start = << >>
    /\ U_start = << >>
    /\ outer_prods_U = << >>
    /\ outer_prods_L = << >>
NoClip == x_solver = << >> /\ l_stored = << >> /\ u_stored = << >>
\* no call of _initialize with given parameters is under study:
\* dim_embeddings has its default, n_signatures
NoParameters == [is_none |-> TRUE, items |-> {}]
NoGiven == dim_embeddings = NumSignatures /\ given_parameters = NoParameters
NoDetail == NoPass /\ NoClip /\ NoGiven

Init ==
    /\ min_iterations \in 0..(MaxIterBound + 1)
    /\ max_iterations \in 0..MaxIterBound
    /\ tol \in Tols
    /\ Constructed
    /\ NoAuxiliary
    /\ NoCorrelation
    /\ NoDetail

----------------------------------------------------------------------------
(* fit, corrnmf_det.py:197-208: _setup_data_parameters, _initialize, the   *)
(* two initial objective evaluations, n_iteration = 0, converged = False   *)

\* CorrNMF._initialize, corrnmf.py:126-196
Initialize(gs, gse, gsa) ==
    /\ W' = IF gs = "None" THEN Written("initialize", 0)
                           ELSE Written("given_signatures", 0)
    /\ signature_scalings' = Written("zeros", 0)
    /\ alpha' = Written("zeros", 0)
    /\ L' = [k \in Signatures |->
               IF gse = "None" THEN Written("multivariate_normal", 0)
                               ELSE Written("given_signature_embeddings", 0)]
    /\ U' = [d \in Samples |->
               IF gsa = "None" THEN Written("multivariate_normal", 0)
                               ELSE Written("given_sample_embeddings", 0)]
    /\ variance' = Written("1.0", 0)
    /\ exposures' = ComputeExposures(signature_scalings', alpha', L', U')

\* the body of fit up to the loop, for the call fit(data, frame, ...)
EnterFit(frame, gse, gsa, hist, v) ==
    LET gs == CheckGivenSignatures(frame, DataMutationTypes, NumSignatures)
    IN  /\ given_signatures_frame' = frame
        /\ mutation_types' = DataMutationTypes
        /\ given_signatures' = gs
        /\ given_signature_embeddings' = gse
        /\ given_sample_embeddings' = gsa
        /\ fit_history' = hist
        /\ returned' = NotReturned
        \* the locals of an earlier call are gone
        /\ p' = NoP
        /\ idx' = 0
        /\ IF gs = "incompatible"
           THEN \* the check raises before anything is set
                /\ pc' = "raised"
                /\ UNCHANGED <<W, signature_scalings, alpha, L, U, variance,
                               exposures, of_values, sof_values, n_iteration,
                               converged>>
           ELSE /\ Initialize(gs, gse, gsa)
                /\ of_values' = <<Evaluation("objective_function", 0, v)>>
                /\ sof_values' = <<Evaluation("objective_function", 0, v)>>
                /\ n_iteration' = 0
                /\ converged' = FALSE
                /\ pc' = "while"
        /\ UNCHANGED <<aux_vars, corr_vars, detail_vars, config_vars, history, sigma_sq>>

\* the first fit call on a constructed model
CallFit(frame, gse, gsa, hist, v) ==
    /\ pc = "idle"
    /\ EnterFit(frame, gse, gsa, hist, v)

----------------------------------------------------------------------------
(* The loop of fit, corrnmf_det.py:210-230 *)

\* while not converged: n_iteration += 1
Iterate ==
    /\ pc = "while"
    /\ ~converged
    /\ n_iteration < IterCap
    /\ n_iteration' = n_iteration + 1
    /\ pc' = "alpha"
    /\ UNCHANGED <<aux_vars, corr_vars, detail_vars, config_vars, arg_vars, history, variance, W,
                   returned,
                   signature_scalings, alpha, L, U, sigma_sq, exposures,
                   converged, of_values, sof_values, p, idx>>

\* mutant: the scaling update assigns the signature scalings too
WrittenByUpdateAlpha_Both == {"alpha", "signature_scalings"}

\* the attributes _update_alpha assigns: self.alpha = ...
WrittenByUpdateAlpha == {"alpha"}

\* self._update_alpha()
UpdateAlpha ==
    /\ pc = "alpha"
    /\ alpha' = IF "alpha" \in WrittenByUpdateAlpha
                THEN Written("update_alpha", n_iteration) ELSE alpha
    /\ signature_scalings' =
          IF "signature_scalings" \in WrittenByUpdateAlpha
          THEN Written("update_alpha", n_iteration) ELSE signature_scalings
    /\ pc' = "p"
    /\ UNCHANGED <<aux_vars, corr_vars, detail_vars, config_vars, arg_vars, history, variance, W,
                   returned,
                   L, U, sigma_sq, exposures,
                   n_iteration, converged, of_values, sof_values, p, idx>>

\* p = self._update_p(): reads self.W and self.exposures
UpdateP ==
    /\ pc = "p"
    /\ p' = AuxiliaryOf(W, exposures, n_iteration)
    /\ pc' = "LU"
    /\ UNCHANGED <<aux_vars, corr_vars, detail_vars, config_vars, arg_vars, history, variance, W,
                   returned,
                   signature_scalings, alpha, L, U, sigma_sq, exposures,
                   n_iteration, converged, of_values, sof_values, idx>>

\* mutant: with given sample embeddings the rest of the iteration's updates
\* is skipped
AfterL_SkipsUpdates(gsa) == IF UpdatesU(gsa) THEN "U" ELSE "of"

\* where _update_LU continues once the signature embeddings are done
AfterL(gsa) == IF UpdatesU(gsa) THEN "U" ELSE "sigma"

\* self._update_LU(p, ...): aux, then the branch on the given embeddings
UpdateLU ==
    /\ pc = "LU"
    /\ pc' = IF UpdatesL(given_signature_embeddings) THEN "L"
             ELSE AfterL(given_sample_embeddings)
    /\ idx' = 1
    /\ UNCHANGED <<aux_vars, corr_vars, detail_vars, config_vars, arg_vars, history, variance, W,
                   returned,
                   signature_scalings, alpha, L, U, sigma_sq, exposures,
                   n_iteration, converged, of_values, sof_values, p>>

\* self._update_l(k, aux_row, outer_prods_U): solve, clip, store column k
Update_l ==
    /\ pc = "L"
    /\ L' = [L EXCEPT ![idx] = Written("_update_l", n_iteration)]
    /\ IF idx < NumSignatures
       THEN idx' = idx + 1 /\ pc' = "L"
       ELSE idx' = 1 /\ pc' = AfterL(given_sample_embeddings)
    /\ UNCHANGED <<aux_vars, corr_vars, detail_vars, config_vars, arg_vars, history, variance, W,
                   returned,
                   signature_scalings, alpha, U, sigma_sq, exposures,
                   n_iteration, converged, of_values, sof_values, p>>

\* self._update_u(d, aux_col, outer_prods_L): solve, clip, store column d
Update_u ==
    /\ pc = "U"
    /\ U' = [U EXCEPT ![idx] = Written("_update_u", n_iteration)]
    /\ IF idx < NumSamples
       THEN idx' = idx + 1 /\ pc' = "U"
       ELSE idx' = 1 /\ pc' = "sigma"
    /\ UNCHANGED <<aux_vars, corr_vars, detail_vars, config_vars, arg_vars, history, variance, W,
                   returned,
                   signature_scalings, alpha, L, sigma_sq, exposures,
                   n_iteration, converged, of_values, sof_values, p>>

\* self._update_sigma_sq(), then the test of given_signatures
UpdateSigmaSq ==
    /\ pc = "sigma"
    /\ sigma_sq' = Written("update_sigma_sq", n_iteration)
    /\ pc' = IF UpdatesW(given_signatures) THEN "W" ELSE "of"
    /\ UNCHANGED <<aux_vars, corr_vars, detail_vars, config_vars, arg_vars, history, variance, W,
                   returned,
                   signature_scalings, alpha, L, U, exposures,
                   n_iteration, converged, of_values, sof_values, p, idx>>

\* self._update_W(): reads self.X, self.W, self.exposures
UpdateW ==
    /\ pc = "W"
    /\ W' = Written("update_W", n_iteration)
    /\ pc' = "of"
    /\ UNCHANGED <<aux_vars, corr_vars, detail_vars, config_vars, arg_vars, history, variance,
                   returned,
                   signature_scalings, alpha, L, U, sigma_sq, exposures,
                   n_iteration, converged, of_values, sof_values, p, idx>>

\* of_values.append(self.objective_function())
EvalObjective(v) ==
    /\ pc = "of"
    /\ of_values' =
         Append(of_values, Evaluation("objective_function", n_iteration, v))
    /\ pc' = "sof"
    /\ UNCHANGED <<aux_vars, corr_vars, detail_vars, config_vars, arg_vars, history, variance, W,
                   returned,
                   signature_scalings, alpha, L, U, sigma_sq, exposures,
                   n_iteration, converged, sof_values, p, idx>>

\* prev_sof_value, sof_values.append(...), rel_change, converged
ConvergenceTest(v) ==
    /\ pc = "sof"
    /\ LET prev_sof_value == sof_values[Len(sof_values)].val
       IN  converged' = Converged(RelChangeLess(v, prev_sof_value, tol),
                                  n_iteration, min_iterations, max_iterations)
    /\ sof_values' =
         Append(sof_values,
                Evaluation("_surrogate_objective_function", n_iteration, v))
    /\ pc' = "while"
    /\ UNCHANGED <<aux_vars, corr_vars, detail_vars, config_vars, arg_vars, history, variance, W,
                   returned,
                   signature_scalings, alpha, L, U, sigma_sq, exposures,
                   n_iteration, of_values, p, idx>>

\* mutant: fit returns nothing
ReturnValue_None == "None"

\* return self
ReturnValue == "self"

\* corrnmf_det.py:232-236: the loop has ended; history, return self
Return ==
    /\ pc = "while"
    /\ converged
    /\ history' =
         IF fit_history
         THEN [key \in DOMAIN history \cup
                       {"objective_function", "surrogate_objective_function"} |->
                 IF key = "objective_function" THEN HistorySlice(of_values)
                 ELSE IF key = "surrogate_objective_function"
                      THEN HistorySlice(sof_values)
                      ELSE history[key]]
         ELSE history
    /\ returned' = ReturnValue
    /\ pc' = "done"
    /\ UNCHANGED <<aux_vars, corr_vars, detail_vars, config_vars, arg_vars, variance, W,
                   signature_scalings, alpha, L, U, sigma_sq, exposures,
                   n_iteration, converged, of_values, sof_values, p, idx>>

----------------------------------------------------------------------------
(* Operations on the fitted model *)

\* CorrNMF.compute_reconstruction_errors, corrnmf.py:78-83:
\* compute_exposures() first, then the samplewise divergence
ComputeReconstructionErrors ==
    /\ pc = "done"
    /\ exposures' = CurrentExposures
    /\ UNCHANGED <<aux_vars, corr_vars, detail_vars, config_vars, arg_vars, history, variance, W,
                   returned,
                   signature_scalings, alpha, L, U, sigma_sq,
                   pc, n_iteration, converged, of_values, sof_values, p, idx>>

----------------------------------------------------------------------------
(* _update_p on numbers, corrnmf_det.py:59-63.  The entries of W and E are *)
(* positive integers (multiples of a common unit, which the normalisation  *)
(* cancels); the entries of p are exact fractions.                         *)

NumFeatures == 1
Features == 1..NumFeatures

\* EPSILON = np.finfo(np.float32).eps = 2^-23 = 1 / EpsilonInverse
EpsilonInverse == 8388608

Frac(n, d) == [num |-> n, den |-> d]
EPSILON == Frac(1, EpsilonInverse)

\* the entries W and E are drawn from
PositiveVals == {1, 4096}

RECURSIVE SumOf(_, _)
SumOf(f, S) ==
    IF S = {} THEN 0
    ELSE LET x == CHOOSE y \in S : TRUE
         IN  f[x] + SumOf(f, S \ {x})

Cells == Features \X Signatures \X Samples

\* corrnmf.update_p_unnormalized(W, E): p[v,k,d] = W[v,k] * E[k,d]
UpdatePUnnormalized(w, e) ==
    [c \in Cells |-> w[c[1]][c[2]] * e[c[2]][c[3]]]

\* p /= np.sum(p, axis=1, keepdims=True)
NormaliseOverSignatures(q) ==
    [c \in Cells |->
        Frac(q[c], SumOf([k \in Signatures |-> q[<<c[1], k, c[3]>>]],
                         Signatures))]

\* x < EPSILON for a fraction x = num/den, den > 0 (0/0 is nan: not less)
LessThanEpsilon(x) ==
    x.den > 0 /\ x.num <= (x.den - 1) \div EpsilonInverse

\* p.clip(EPSILON)
ClipBelow(q) ==
    [c \in Cells |-> IF LessThanEpsilon(q[c]) THEN EPSILON ELSE q[c]]

\* CorrNMFDet._update_p
UpdatePNumeric(w, e) ==
    ClipBelow(NormaliseOverSignatures(UpdatePUnnormalized(w, e)))

Update_p ==
    /\ p_num' = UpdatePNumeric(W_num, E_num)
    /\ UNCHANGED <<fit_vars, corr_vars, detail_vars, W_num, E_num>>

\* a constructed model with the defaults of SignatureNMF.__init__
DefaultModel ==
    /\ min_iterations = 500
    /\ max_iterations = 10000
    /\ tol = [num |-> 1, den |-> 10000000]
    /\ Constructed

InitAuxiliary ==
    /\ DefaultModel
    /\ NoCorrelation
    /\ W_num \in [Features -> [Signatures -> PositiveVals]]
    /\ E_num \in [Signatures -> [Samples -> PositiveVals]]
    /\ p_num = << >>
    /\ NoDetail

NextAuxiliary == Update_p

SpecAuxiliary == InitAuxiliary /\ [][NextAuxiliary]_vars

\* the entries of a signature matrix that may put no weight on a mutation
\* type
NonNegativeVals == {0} \cup PositiveVals

\* exposure matrices with positive entries; the samples after the second
\* have the exposures of the first
ExposureArgs ==
    {e \in [Signatures -> [Samples -> PositiveVals]] :
        \A k \in Signatures, d \in Samples : d > 2 => e[k][d] = e[k][1]}

\* _update_p for signature matrices with zero entries
InitAuxiliaryZero ==
    /\ DefaultModel
    /\ NoCorrelation
    /\ E_num \in ExposureArgs
    /\ W_num \in [Features -> [Signatures -> NonNegativeVals]]
    /\ p_num = << >>
    /\ NoDetail

SpecAuxiliaryZero == InitAuxiliaryZero /\ [][NextAuxiliary]_vars

----------------------------------------------------------------------------
(* compute_correlation_scaled on numbers, corrnmf.py:206-238.  Embedding   *)
(* coordinates are integers; a norm is kept as the integer under its       *)
(* square root; a quotient dot / (norm * norm) is kept exactly, as its     *)
(* sign and its square in lowest terms, or as the IEEE value of x/0.       *)

EmbVals == {-1, 0, 2}
EmbDims == {1, 2}
EmbVectors(dim) == [1..dim -> EmbVals]

Dot(a, b) == SumOf([i \in DOMAIN a |-> a[i] * b[i]], DOMAIN a)
NormSq(a) == Dot(a, a)

RECURSIVE GCD(_, _)
GCD(a, b) == IF b = 0 THEN a ELSE GCD(b, a % b)

Sign(x) == IF x > 0 THEN 1 ELSE IF x < 0 THEN -1 ELSE 0

Real(kind, sign, n, d) == [kind |-> kind, sign |-> sign, num |-> n, den |-> d]
NaN == Real("nan", 0, 0, 0)
Zero == Real("finite", 0, 0, 1)
One == Real("finite", 1, 1, 1)

\* dot / (sqrt(x) * sqrt(y)) for integers x, y >= 0
Quotient(dot, x, y) ==
    IF x * y = 0
    THEN IF dot = 0 THEN NaN ELSE Real("inf", Sign(dot), 0, 0)
    ELSE LET g == GCD(dot * dot, x * y)
         IN  Real("finite", Sign(dot), (dot * dot) \div g, (x * y) \div g)

\* norms = np.sqrt(np.sum(vectors**2, axis=1)), by the number under the root
Norms(vectors) == [i \in 1..Len(vectors) |-> NormSq(vectors[i])]

\* mutant: the norm of the vector before the second one
SecondNormIndex_OffByOne(i1, i2) == i1 + i2

\* the index into norms of the second vector of the pair (i1, i2); indices
\* count from 0 as in the source
SecondNormIndex(i1, i2) == i1 + i2 + 1

\* np.dot(v1, v2) / (norms[i1] * norms[i1 + i2 + 1]) with v1 = vectors[i1]
\* and v2 = vectors[(i1 + 1):][i2]
CorrEntry(vectors, i1, i2) ==
    LET v1 == vectors[i1 + 1]
        v2 == vectors[(i1 + 1) + i2 + 1]
    IN  Quotient(Dot(v1, v2), Norms(vectors)[i1 + 1],
                 Norms(vectors)[SecondNormIndex(i1, i2) + 1])

\* the list comprehension: for i1, for i2 over vectors[(i1 + 1):]
RECURSIVE CorrVector(_, _)
CorrVector(vectors, i1) ==
    IF i1 >= Len(vectors) THEN << >>
    ELSE [i2 \in 1..(Len(vectors) - 1 - i1) |-> CorrEntry(vectors, i1, i2 - 1)]
         \o CorrVector(vectors, i1 + 1)

\* position in the condensed vector of the pair i < j of d points, from 0
CondensedIndex(d, i, j) == d * i - (i * (i + 1)) \div 2 + (j - i - 1)

\* scipy.spatial.distance.squareform of a condensed vector: the symmetric
\* matrix with zero diagonal; an empty vector gives the 1 x 1 zero matrix
Squareform(v) ==
    LET d == CHOOSE n \in 1..(Len(v) + 1) : n * (n - 1) = 2 * Len(v)
    IN  [i \in 1..d |-> [j \in 1..d |->
           IF i = j THEN Zero
           ELSE v[CondensedIndex(d, Min(i, j) - 1, Max(i, j) - 1) + 1]]]

\* x + 1 where x is a diagonal entry of a squareform matrix
PlusOne(x) == IF x = Zero THEN One ELSE Real("other", 0, 0, 0)

\* squareform(corr_vector) + np.identity(n_vectors)
CorrelationScaled(vectors) ==
    LET m == Squareform(CorrVector(vectors, 0))
        n_vectors == Len(Norms(vectors))
    IN  [i \in 1..n_vectors |-> [j \in 1..n_vectors |->
           IF i = j THEN PlusOne(m[i][j]) ELSE m[i][j]]]

ComputeCorrelationScaled(data) ==
    /\ IF data = "samples"
       THEN /\ X_correlation' = CorrelationScaled(sample_embeddings)
            /\ UNCHANGED correlation
       ELSE /\ correlation' = CorrelationScaled(signature_embeddings)
            /\ UNCHANGED X_correlation
    /\ UNCHANGED <<fit_vars, aux_vars, detail_vars, signature_embeddings,
                   sample_embeddings>>

\* a fitted model: one embedding set is drawn, the other has every
\* coordinate 2
InitCorrelation ==
    /\ DefaultModel
    /\ NoAuxiliary
    /\ NoDetail
    /\ correlation = << >>
    /\ X_correlation = << >>
    /\ \E dim \in EmbDims :
         \/ /\ signature_embeddings \in [Signatures -> EmbVectors(dim)]
            /\ sample_embeddings = [d \in Samples |-> [c \in 1..dim |-> 2]]
         \/ /\ sample_embeddings \in [Samples -> EmbVectors(dim)]
            /\ signature_embeddings =
                 [k \in Signatures |-> [c \in 1..dim |-> 2]]

NextCorrelation ==
    \E data \in {"samples", "signatures"} : ComputeCorrelationScaled(data)

SpecCorrelation == InitCorrelation /\ [][NextCorrelation]_vars

----------------------------------------------------------------------------

FitStep ==
    \/ Iterate
    \/ UpdateAlpha
    \/ UpdateP
    \/ UpdateLU
    \/ Update_l
    \/ Update_u
    \/ UpdateSigmaSq
    \/ UpdateW
    \/ \E v \in ObjVals : EvalObjective(v)
    \/ \E v \in ObjVals : ConvergenceTest(v)
    \/ Return

Next ==
    \/ \E frame \in GivenSignaturesArgs,
          gse \in {"None", "given"}, gsa \in {"None", "given"},
          hist \in BOOLEAN, v \in ObjVals :
            CallFit(frame, gse, gsa, hist, v)
    \/ FitStep
    \/ ComputeReconstructionErrors

Spec == Init /\ [][Next]_vars

\* fit is one sequential call: a step that can be taken is taken
FairSpec == Spec /\ WF_vars(FitStep)

----------------------------------------------------------------------------
(* Calling fit again on the same model object *)

\* a further fit call, once the previous one has returned
CallFitAgain(frame, gse, gsa, hist, v) ==
    /\ pc = "done"
    /\ EnterFit(frame, gse, gsa, hist, v)

\* a constructed model that stops after one iteration
InitRefit ==
    /\ min_iterations \in 0..1
    /\ max_iterations = 1
    /\ tol \in Tols
    /\ Constructed
    /\ NoAuxiliary
    /\ NoCorrelation
    /\ NoDetail

NextRefit ==
    \/ Next
    \/ \E frame \in {NoFrame, DataFrame(DataMutationTypes, NumSignatures)},
          gse \in {"None", "given"}, gsa \in {"None", "given"},
          hist \in BOOLEAN, v \in ObjVals :
            CallFitAgain(frame, gse, gsa, hist, v)

SpecRefit == InitRefit /\ [][NextRefit]_vars

----------------------------------------------------------------------------
(* One pass of _update_LU with its calls of scipy.optimize.minimize,       *)
(* corrnmf_det.py:65-156.  The solver is a library routine: the iterate it  *)
(* returns is known by the sub-problem and the values it was given, the    *)
(* number of inner iterations it performed and its success flag are any    *)
(* values its options allow.                                               *)

\* the inner iterations a solver run without maxiter performs at most, in
\* this model
InnerIterBound == 4

\* options={"maxiter": 3}
MaxiterU == 3

\* options as a set of <<name, value>> pairs
NoOptions == {}

\* mutant: the sample sub-problems are run without options
Options_u_NoCap == NoOptions

\* the options _update_l and _update_u pass to minimize
Options_l == NoOptions
Options_u == {<<"maxiter", MaxiterU>>}

\* Newton-CG stops at the latest after maxiter inner iterations
InnerIterations(options) ==
    IF \E o \in options : o[1] = "maxiter"
    THEN 0..((CHOOSE o \in options : o[1] = "maxiter")[2])
    ELSE 0..InnerIterBound

\* np.einsum("mD,nD->Dmn", self.U, self.U), np.einsum("mK,nK->Kmn", self.L,
\* self.L): one outer product per column of the array
OuterProducts(columns) == [einsum |-> columns]

\* no outer products have been computed
NoProducts == << >>

\* mutant: _update_U takes the outer products of L as it was when the pass
\* began
OuterProdsL_Stale(Lnow, Lbegin) == OuterProducts(Lbegin)

\* outer_prods_L = np.einsum("mK,nK->Kmn", self.L, self.L) on entry of
\* _update_U
OuterProdsL(Lnow, Lbegin) == OuterProducts(Lnow)

\* mutant: the signature sub-problem reads every column of L
ReadLocations_l_AllColumns(k) ==
    {<<"L", j>> : j \in Signatures} \cup {<<"U", d>> : d \in Samples}
        \cup {<<"alpha", 0>>, <<"sigma_sq", 0>>, <<"aux_row", k>>,
              <<"outer_prods_U", 0>>}

\* what _update_l(k, aux_row, outer_prods_U) reads: x0 = self.L[:, k];
\* self.U, self.alpha, self.sigma_sq in objective_fun, gradient, hessian;
\* aux_row; s_grad and outer_prods_U, computed from self.U
ReadLocations_l(k) ==
    {<<"L", k>>} \cup {<<"U", d>> : d \in Samples}
        \cup {<<"alpha", 0>>, <<"sigma_sq", 0>>, <<"aux_row", k>>,
              <<"outer_prods_U", 0>>}

\* what _update_u(d, aux_col, outer_prods_L) reads: x0 = self.U[:, d];
\* self.alpha[d]; self.L, self.sigma_sq in the closures; aux_col; s_grad and
\* outer_prods_L, computed from self.L
ReadLocations_u(d) ==
    {<<"U", d>>} \cup {<<"L", k>> : k \in Signatures}
        \cup {<<"alpha", d>>, <<"sigma_sq", 0>>, <<"aux_col", d>>,
              <<"outer_prods_L", 0>>}

\* what _update_l(k, ...) and _update_u(d, ...) assign
WriteLocations_l(k) == {<<"L", k>>}
WriteLocations_u(d) == {<<"U", d>>}

\* the value at a location when the embeddings are Lc and Uc
ValueAt(loc, Lc, Uc) ==
    CASE loc[1] = "L" -> Lc[loc[2]]
      [] loc[1] = "U" -> Uc[loc[2]]
      [] loc[1] = "alpha" -> [of |-> alpha, element |-> loc[2]]
      [] loc[1] = "sigma_sq" -> sigma_sq
      [] loc[1] = "outer_prods_U" -> outer_prods_U
      [] loc[1] = "outer_prods_L" -> outer_prods_L
      [] OTHER -> [of |-> p, axis |-> loc[1], element |-> loc[2]]

Inputs(locs, Lc, Uc) == [loc \in locs |-> ValueAt(loc, Lc, Uc)]

\* the .x of the result of minimize for a sub-problem with these inputs
SolverIterate(kind, index, inputs) ==
    [minimize |-> kind, index |-> index, inputs |-> inputs]

OptimizeResult(kind, index, x, nit, success, options) ==
    [kind |-> kind, index |-> index, x |-> x, nit |-> nit,
     success |-> success, options |-> options]

\* mutant: the iterate of a failed run is dropped, the column is kept
Accepted_OnSuccess(result, x0) == IF result.success THEN result.x ELSE x0

\* l = optimize.minimize(...).x
Accepted(result, x0) == result.x

\* l[(0 < l) & (l < EPSILON)] = EPSILON; l[(-EPSILON < l) & (l < 0)] = -EPSILON
Clipped(x) == [clipped |-> x]

\* the column sub-problem k (d) stores when the embeddings are Lc and Uc
Subproblem_l(k, Lc, Uc) ==
    Clipped(SolverIterate("l", k, Inputs(ReadLocations_l(k), Lc, Uc)))
Subproblem_u(d, Lc, Uc) ==
    Clipped(SolverIterate("u", d, Inputs(ReadLocations_u(d), Lc, Uc)))

\* self._update_l(idx, aux_row, outer_prods_U) in the loop of _update_L
Minimize_l(nit, success) ==
    /\ pc = "L"
    /\ LET x == SolverIterate("l", idx, Inputs(ReadLocations_l(idx), L, U))
           r == OptimizeResult("l", idx, x, nit, success, Options_l)
       IN  /\ res' = r
           /\ L' = [L EXCEPT ![idx] = Clipped(Accepted(r, L[idx]))]
    /\ solved' = Append(solved, [kind |-> "l", index |-> idx, nit |-> nit])
    /\ IF idx < NumSignatures
       THEN idx' = idx + 1 /\ pc' = "L"
       ELSE idx' = 1 /\ pc' = AfterL(given_sample_embeddings)
    /\ outer_prods_L' =
          IF idx = NumSignatures /\ UpdatesU(given_sample_embeddings)
          THEN OuterProdsL(L', L_start)
          ELSE outer_prods_L
    /\ UNCHANGED <<aux_vars, corr_vars, clip_vars, init_vars, config_vars, arg_vars,
                   history, variance, returned, W, signature_scalings, alpha,
                   U, sigma_sq, exposures, n_iteration, converged, of_values,
                   sof_values, p, L_start, U_start, outer_prods_U>>

\* self._update_u(idx, aux_col, outer_prods_L) in the loop of _update_U
Minimize_u(nit, success) ==
    /\ pc = "U"
    /\ LET x == SolverIterate("u", idx, Inputs(ReadLocations_u(idx), L, U))
           r == OptimizeResult("u", idx, x, nit, success, Options_u)
       IN  /\ res' = r
           /\ U' = [U EXCEPT ![idx] = Clipped(Accepted(r, U[idx]))]
    /\ solved' = Append(solved, [kind |-> "u", index |-> idx, nit |-> nit])
    /\ IF idx < NumSamples
       THEN idx' = idx + 1 /\ pc' = "U"
       ELSE idx' = 1 /\ pc' = "sigma"
    /\ UNCHANGED <<aux_vars, corr_vars, clip_vars, init_vars, config_vars, arg_vars,
                   history, variance, returned, W, signature_scalings, alpha,
                   L, sigma_sq, exposures, n_iteration, converged, of_values,
                   sof_values, p, L_start, U_start, outer_prods_U,
                   outer_prods_L>>

\* self._update_LU(p, ...) with the first statements of the routine it
\* enters: _update_L(aux) is called without outer_prods_U and computes them
\* from self.U; _update_U(aux) computes outer_prods_L from self.L
EnterUpdateLU ==
    /\ pc = "LU"
    /\ pc' = IF UpdatesL(given_signature_embeddings) THEN "L"
             ELSE AfterL(given_sample_embeddings)
    /\ idx' = 1
    /\ outer_prods_U' = IF UpdatesL(given_signature_embeddings)
                        THEN OuterProducts(U) ELSE outer_prods_U
    /\ outer_prods_L' = IF ~ UpdatesL(given_signature_embeddings)
                           /\ UpdatesU(given_sample_embeddings)
                        THEN OuterProdsL(L, L_start) ELSE outer_prods_L
    /\ UNCHANGED <<aux_vars, corr_vars, clip_vars, init_vars, config_vars, arg_vars,
                   history, variance, W, returned, signature_scalings, alpha,
                   L, U, sigma_sq, exposures, n_iteration, converged,
                   of_values, sof_values, p, res, solved, L_start, U_start>>

\* fit at its first call of _update_LU: initialized, alpha updated and p
\* computed in iteration 1
InitPass ==
    /\ min_iterations = 500
    /\ max_iterations = 10000
    /\ tol = [num |-> 1, den |-> 10000000]
    /\ history = [key \in {} |-> << >>]
    /\ variance = Written("1.0", 0)
    /\ given_signatures = "None"
    /\ given_signatures_frame = NoFrame
    /\ fit_history = FALSE
    /\ returned = NotReturned
    /\ sigma_sq = Unset
    /\ converged = FALSE
    /\ idx = 0
    /\ NoAuxiliary
    /\ NoCorrelation
    /\ NoClip
    /\ NoGiven
    /\ given_signature_embeddings \in {"None", "given"}
    /\ given_sample_embeddings \in {"None", "given"}
    /\ mutation_types = DataMutationTypes
    /\ W = Written("initialize", 0)
    /\ signature_scalings = Written("zeros", 0)
    /\ alpha = Written("update_alpha", 1)
    /\ L = [k \in Signatures |->
              IF given_signature_embeddings = "None"
              THEN Written("multivariate_normal", 0)
              ELSE Written("given_signature_embeddings", 0)]
    /\ U = [d \in Samples |->
              IF given_sample_embeddings = "None"
              THEN Written("multivariate_normal", 0)
              ELSE Written("given_sample_embeddings", 0)]
    /\ exposures = ComputeExposures(signature_scalings, Written("zeros", 0),
                                    L, U)
    /\ p = AuxiliaryOf(W, exposures, 1)
    /\ of_values = <<Evaluation("objective_function", 0, 0)>>
    /\ sof_values = of_values
    /\ n_iteration = 1
    /\ pc = "LU"
    /\ res = NoResult
    /\ solved = << >>
    /\ L_start = L
    /\ U_start = U
    /\ outer_prods_U = NoProducts
    /\ outer_prods_L = NoProducts

NextPass ==
    \/ EnterUpdateLU
    \/ \E nit \in InnerIterations(Options_l), success \in BOOLEAN :
          Minimize_l(nit, success)
    \/ \E nit \in InnerIterations(Options_u), success \in BOOLEAN :
          Minimize_u(nit, success)
    \/ UpdateSigmaSq

SpecPass == InitPass /\ [][NextPass]_vars

----------------------------------------------------------------------------
(* The clipping of a solved vector in _update_l and _update_u on numbers,  *)
(* corrnmf_det.py:88-90 and 130-132.  A coordinate is an exact fraction; the *)
(* solver's coordinates are multiples of EPSILON / 2 around zero.           *)

\* the solver's coordinates are n * EPSILON / 2 for |n| <= CoordBound
CoordBound == 3

HalfEpsilons(n) == Frac(n, 2 * EpsilonInverse)

SolverCoordinates == {HalfEpsilons(n) : n \in (0 - CoordBound)..CoordBound}

\* the coordinates of an embedding: dim_embeddings = n_signatures by default
Coordinates == 1..NumSignatures

Negated(x) == Frac(0 - x.num, x.den)

\* (0 < l) & (l < EPSILON)
InPositiveBand(x) == 0 < x.num /\ LessThanEpsilon(x)

\* (-EPSILON < l) & (l < 0)
InNegativeBand(x) == x.num < 0 /\ LessThanEpsilon(Negated(x))

\* l[(0 < l) & (l < EPSILON)] = EPSILON, then
\* l[(-EPSILON < l) & (l < 0)] = -EPSILON on the vector so changed
ClipAwayFromZero(x) ==
    LET first == [c \in DOMAIN x |->
                    IF InPositiveBand(x[c]) THEN EPSILON ELSE x[c]]
    IN  [c \in DOMAIN x |->
            IF InNegativeBand(first[c]) THEN Negated(EPSILON) ELSE first[c]]

\* lines 88-90 of _update_l for the vector the solver returned
Store_l ==
    /\ l_stored = << >>
    /\ l_stored' = ClipAwayFromZero(x_solver)
    /\ UNCHANGED <<fit_vars, aux_vars, corr_vars, pass_vars, init_vars, x_solver,
                   u_stored>>

\* lines 130-132 of _update_u for the vector the solver returned
Store_u ==
    /\ u_stored = << >>
    /\ u_stored' = ClipAwayFromZero(x_solver)
    /\ UNCHANGED <<fit_vars, aux_vars, corr_vars, pass_vars, init_vars, x_solver,
                   l_stored>>

InitClip ==
    /\ DefaultModel
    /\ NoAuxiliary
    /\ NoCorrelation
    /\ NoPass
    /\ NoGiven
    /\ x_solver \in [Coordinates -> SolverCoordinates]
    /\ l_stored = << >>
    /\ u_stored = << >>

NextClip == Store_l \/ Store_u

SpecClip == InitClip /\ [][NextClip]_vars

----------------------------------------------------------------------------
(* CorrNMF._initialize with a dictionary of given parameters,               *)
(* corrnmf.py:103-196.  An array is known by its shape and by what filled   *)
(* it; a number by its type and value.                                      *)

\* the embedding dimensions a model is constructed with
MaxDimEmbeddings == 2
DimsEmbeddings == 1..MaxDimEmbeddings

Array(shape, entries) == [shape |-> shape, entries |-> entries]
Number(type, val) == [type |-> type, val |-> val]

\* np.zeros(n)
Zeros(n) == Array(<<n>>, "zeros")

\* np.random.multivariate_normal(np.zeros(dim), np.identity(dim), size=n)
StandardNormalDraws(n, dim) == Array(<<n, dim>>, "multivariate_normal(0, I)")

\* float(x)
Float(x) == Number("float", x.val)

\* the keys of given_parameters _initialize looks up
ParameterKeys ==
    {"asignatures", "signature_scalings", "sample_scalings",
     "signature_embeddings", "sample_embeddings", "variance"}

\* the shape the data and the model require of a given array
ExpectedShape(key, dim) ==
    CASE key = "signature_scalings" -> <<NumSignatures>>
      [] key = "sample_scalings" -> <<NumSamples>>
      [] key = "signature_embeddings" -> <<NumSignatures, dim>>
      [] key = "sample_embeddings" -> <<NumSamples, dim>>

\* the values a caller passes for a key: the first matches the data and the
\* model, the second does not (variance: an int, a float)
GivenValues(key, dim) ==
    CASE key = "asignatures" ->
            <<DataFrame(DataMutationTypes, 1), DataFrame(<<"C>A">>, 1)>>
      [] key = "variance" -> <<Number("int", 2), Number("float", 3)>>
      [] OTHER ->
            <<Array(ExpectedShape(key, dim), "given"),
              Array(<<Len(ExpectedShape(key, dim))>>, "given")>>

\* the dictionaries a caller passes: None, or for every key either no entry
\* (choice 0) or one of its values
GivenParameterArgs(dim) ==
    {NoParameters} \cup
    {[is_none |-> FALSE,
      items |-> {<<key, GivenValues(key, dim)[choice[key]]>> :
                    key \in {k \in ParameterKeys : choice[k] # 0}}] :
        choice \in [ParameterKeys -> 0..2]}

\* key in given_parameters
Has(items, key) == \E item \in items : item[1] = key

\* given_parameters[key]
ValueOf(items, key) == (CHOOSE item \in items : item[1] = key)[2]

\* a given value matches the data and the model
ValidGiven(key, value, dim) ==
    CASE key = "asignatures" ->
            /\ ArrayEqual(value.index, DataMutationTypes)
            /\ value.n_columns <= NumSignatures
      [] key = "variance" -> TRUE
      [] OTHER -> value.shape = ExpectedShape(key, dim)

\* _utils_corrnmf.check_given_parameters: an empty dictionary for None, the
\* dictionary itself when every given value matches, an error otherwise
CheckGivenParameters(given, dim) ==
    IF given.is_none THEN [raises |-> FALSE, items |-> {}]
    ELSE IF \A item \in given.items : ValidGiven(item[1], item[2], dim)
         THEN [raises |-> FALSE, items |-> given.items]
         ELSE [raises |-> TRUE, items |-> {}]

\* mutant: the given value is not taken
GivenOrDefault_Default(items, key, default) == default

\* given_parameters[key] if key in given_parameters, else the default
GivenOrDefault(items, key, default) ==
    IF Has(items, key) THEN ValueOf(items, key) ELSE default

\* self._setup_data_parameters(data), which precedes _initialize
SetupDataParameters ==
    /\ pc = "idle"
    /\ mutation_types' = DataMutationTypes
    /\ pc' = "setup"
    /\ UNCHANGED <<aux_vars, corr_vars, detail_vars, config_vars, history,
                   variance, given_signatures, given_signature_embeddings,
                   given_sample_embeddings, fit_history,
                   given_signatures_frame, returned, W, signature_scalings,
                   alpha, L, U, sigma_sq, exposures, n_iteration, converged,
                   of_values, sof_values, p, idx>>

\* self._initialize(given_parameters)
InitializeGiven ==
    /\ pc = "setup"
    /\ LET checked == CheckGivenParameters(given_parameters, dim_embeddings)
           items == checked.items
       IN  IF checked.raises
           THEN /\ pc' = "raised"
                /\ UNCHANGED <<W, signature_scalings, alpha, L, U, variance,
                               exposures>>
           ELSE /\ pc' = "initialized"
                /\ W' = IF Has(items, "asignatures")
                        THEN Written("given_signatures", 0)
                        ELSE Written("initialize", 0)
                /\ signature_scalings' =
                      GivenOrDefault(items, "signature_scalings",
                                     Zeros(NumSignatures))
                /\ alpha' = GivenOrDefault(items, "sample_scalings",
                                           Zeros(NumSamples))
                /\ L' = GivenOrDefault(items, "signature_embeddings",
                           StandardNormalDraws(NumSignatures, dim_embeddings))
                /\ U' = GivenOrDefault(items, "sample_embeddings",
                           StandardNormalDraws(NumSamples, dim_embeddings))
                /\ variance' =
                      Float(GivenOrDefault(items, "variance",
                                           Number("float", 1)))
                /\ exposures' = ComputeExposures(signature_scalings', alpha',
                                                 L', U')
    /\ UNCHANGED <<aux_vars, corr_vars, detail_vars, config_vars, history,
                   given_signatures, given_signature_embeddings,
                   given_sample_embeddings, fit_history,
                   given_signatures_frame, mutation_types, returned, sigma_sq,
                   n_iteration, converged, of_values, sof_values, p, idx>>

InitInitialize ==
    /\ DefaultModel
    /\ NoAuxiliary
    /\ NoCorrelation
    /\ NoPass
    /\ NoClip
    /\ dim_embeddings \in DimsEmbeddings
    /\ given_parameters \in GivenParameterArgs(dim_embeddings)

NextInitialize == SetupDataParameters \/ InitializeGiven

SpecInitialize == InitInitialize /\ [][NextInitialize]_vars

----------------------------------------------------------------------------
(* The iterations of a finished fit, read off sof_values: entry 1 is the   *)
(* value from before the loop, entry n + 1 the value of iteration n        *)

\* r_n < tol for the recorded iteration n
RelLessAt(n) ==
    RelChangeLess(sof_values[n + 1].val, sof_values[n].val, tol)

\* the recorded iterations n >= min_iterations with r_n < tol
StopIterations ==
    {n \in 1..(Len(sof_values) - 1) : n >= min_iterations /\ RelLessAt(n)}

FirstOf(S) == CHOOSE n \in S : \A m \in S : n <= m

InFit == pc \notin {"idle", "raised"}

\* C1: fit leaves its loop exactly at iteration min(n*, max_iterations), n*
\* the first iteration n >= min_iterations with r_n < tol; it never leaves at
\* an iteration n < max_iterations unless n >= min_iterations and r_n < tol.
C1_ExitIteration ==
    pc = "done" =>
        /\ n_iteration =
             IF StopIterations # {}
             THEN Min(FirstOf(StopIterations), max_iterations)
             ELSE max_iterations
        /\ n_iteration < max_iterations => n_iteration \in StopIterations

\* a measure of the work fit has left: the iterations still allowed, then
\* the statements left in the current iteration
StepsPerIteration == NumSignatures + NumSamples + 9

PositionRank ==
    CASE pc = "alpha" -> NumSignatures + NumSamples + 8
      [] pc = "p"     -> NumSignatures + NumSamples + 7
      [] pc = "LU"    -> NumSignatures + NumSamples + 6
      [] pc = "L"     -> NumSamples + 6 + (NumSignatures - idx)
      [] pc = "U"     -> 6 + (NumSamples - idx)
      [] pc = "sigma" -> 5
      [] pc = "W"     -> 4
      [] pc = "of"    -> 3
      [] pc = "sof"   -> 2
      [] pc = "while" -> 1
      [] OTHER        -> 0

Rank ==
    IF pc \in {"idle", "raised", "done"}
    THEN 0
    ELSE (Max(1, max_iterations) - n_iteration) * StepsPerIteration
           + PositionRank

\* C2: with max_iterations >= 1 the loop performs at most max_iterations
\* iterations whatever the surrogate values are; an iteration that reaches
\* max_iterations ends the loop and nothing is raised; fit terminates: every
\* step of fit lowers a measure that is never negative, and fit can step
\* until it has returned.
C2_Termination ==
    /\ [](max_iterations >= 1 => n_iteration <= max_iterations)
    /\ [](pc = "while" /\ n_iteration >= 1 /\ n_iteration >= max_iterations
            => converged)
    /\ [][pc' = "raised" => pc \in {"idle", "raised"}]_vars
    /\ [](Rank >= 0)
    /\ [][FitStep => Rank' < Rank]_vars
    /\ [](InFit /\ pc # "done" => ENABLED FitStep)

C2_Witness ==
    /\ pc = "done"
    /\ max_iterations >= 2
    /\ n_iteration = max_iterations
    /\ \A n \in 1..n_iteration : ~RelLessAt(n)

HistoryKeys == {"objective_function", "surrogate_objective_function"}

\* C4: after fit(history=True) returns, both history lists hold exactly one
\* value per iteration performed, entry i being the value evaluated at the
\* end of iteration i; the values from before the loop are not included.
C4_HistoryPerIteration ==
    (pc = "done" /\ fit_history) =>
        /\ HistoryKeys \subseteq DOMAIN history
        /\ Len(history["objective_function"]) = n_iteration
        /\ Len(history["surrogate_objective_function"]) = n_iteration
        /\ \A i \in 1..n_iteration :
              /\ history["objective_function"][i].at = i
              /\ history["objective_function"][i].fn = "objective_function"
              /\ history["objective_function"][i] = of_values[i + 1]
              /\ history["surrogate_objective_function"][i].at = i
              /\ history["surrogate_objective_function"][i].fn =
                   "_surrogate_objective_function"
              /\ history["surrogate_objective_function"][i] = sof_values[i + 1]

C4_Witness ==
    /\ pc = "done"
    /\ fit_history
    /\ n_iteration >= 2

\* C5: when fit is called with given_signatures, W is the matrix set at
\* initialization in every state of the fit and after it.
C5_GivenSignaturesFixed ==
    (InFit /\ given_signatures # "None") =>
        W = Written("given_signatures", 0)

C5_Witness ==
    /\ pc = "done"
    /\ given_signatures = "compatible"
    /\ n_iteration >= 2

\* the positions of fit after _update_LU of the current iteration
AfterUpdateLU ==
    \/ pc \in {"sigma", "W", "of", "sof"}
    \/ pc \in {"while", "done"} /\ n_iteration >= 1

\* C6: given signature embeddings are never modified by fit, given sample
\* embeddings are never modified by fit, and an embedding set that is not
\* given is rewritten, every column, in every iteration.
C6_GivenEmbeddingsFixed ==
    InFit =>
        /\ given_signature_embeddings # "None" =>
             \A k \in Signatures :
                L[k] = Written("given_signature_embeddings", 0)
        /\ given_sample_embeddings # "None" =>
             \A d \in Samples :
                U[d] = Written("given_sample_embeddings", 0)
        /\ (AfterUpdateLU /\ given_signature_embeddings = "None") =>
             \A k \in Signatures : L[k] = Written("_update_l", n_iteration)
        /\ (AfterUpdateLU /\ given_sample_embeddings = "None") =>
             \A d \in Samples : U[d] = Written("_update_u", n_iteration)

C6_Witness ==
    /\ pc = "done"
    /\ given_signature_embeddings = "given"
    /\ given_sample_embeddings = "None"
    /\ n_iteration >= 2

\* the positions at which the stored exposure matrix is read: _update_p,
\* _update_W, objective_function, and the caller once fit has returned
ReadsExposures == pc \in {"p", "W", "of", "done"}

\* C7: wherever the stored exposure matrix is read, it equals the matrix
\* recomputed from the current signature scalings, sample scalings, L and U.
C7_ExposuresInSync ==
    ReadsExposures => exposures = CurrentExposures

\* the sum over the signature axis of the fractions f[k] is 1; a fraction has
\* the denominator of its row or, when clipped, EpsilonInverse
SumsToOne(f) ==
    LET clipped == {k \in Signatures : f[k].den = EpsilonInverse}
        rest == Signatures \ clipped
        B == SumOf([k \in Signatures |-> f[k].num], clipped)
    IN  IF rest = {}
        THEN B = EpsilonInverse
        ELSE LET S == f[CHOOSE k \in rest : TRUE].den
                 A == SumOf([k \in Signatures |-> f[k].num], rest)
                 lim == B * ((S \div EpsilonInverse) + 1)
             IN  /\ \A k \in rest : f[k].den = S
                 /\ S - A >= 0
                 /\ S - A <= lim
                 /\ (S - A) * EpsilonInverse = B * S

\* C9: the array _update_p returns sums to 1 over the signature axis for
\* every (v, d), for every W and E with strictly positive entries.
C9_AuxiliarySumsToOne ==
    p_num # << >> =>
        \A v \in Features, d \in Samples :
            SumsToOne([k \in Signatures |-> p_num[<<v, k, d>>]])

\* dot(a, b) / (|a| |b|)
Cosine(a, b) == Quotient(Dot(a, b), NormSq(a), NormSq(b))

CorrelationOf(m, vectors) ==
    /\ Len(m) = Len(vectors)
    /\ \A i, j \in 1..Len(vectors) :
          /\ m[i][j] = m[j][i]
          /\ i = j => m[i][j] = One
          /\ i # j =>
               /\ m[i][j] = Cosine(vectors[i], vectors[j])
               /\ m[i][j].kind = "finite" => m[i][j].num <= m[i][j].den

TypesDiffer ==
    \/ Len(given_signatures_frame.index) # Len(mutation_types)
    \/ \E i \in 1..Len(mutation_types) :
          given_signatures_frame.index[i] # mutation_types[i]

NothingUpdated ==
    /\ n_iteration = 0
    /\ W = Unset /\ alpha = Unset /\ signature_scalings = Unset
    /\ sigma_sq = Unset
    /\ \A k \in Signatures : L[k] = Unset
    /\ \A d \in Samples : U[d] = Unset
    /\ p = NoP
    /\ of_values = << >> /\ sof_values = << >>

StateOfThisCall ==
    /\ W = IF given_signatures = "None" THEN Written("update_W", n_iteration)
           ELSE Written("given_signatures", 0)
    /\ signature_scalings = Written("zeros", 0)
    /\ alpha = Written("update_alpha", n_iteration)
    /\ \A k \in Signatures :
          L[k] = IF given_signature_embeddings = "None"
                 THEN Written("_update_l", n_iteration)
                 ELSE Written("given_signature_embeddings", 0)
    /\ \A d \in Samples :
          U[d] = IF given_sample_embeddings = "None"
                 THEN Written("_update_u", n_iteration)
                 ELSE Written("given_sample_embeddings", 0)
    /\ variance = Written("1.0", 0)
    /\ sigma_sq = Written("update_sigma_sq", n_iteration)
    /\ exposures.signature_scalings = Written("zeros", 0)
    /\ exposures.sample_scalings \in
          {Written("zeros", 0), Written("update_alpha", n_iteration)}

\* C13: when a fit call on a model object has returned, the model state is
\* that of this call alone, also when fit was called on the object before:
\* with history=False the history dictionary holds no entries, with
\* history=True it holds this call's values, and the parameters are the ones
\* this call initialized and updated.
C13_SecondFitReplacesState ==
    pc = "done" =>
        /\ StateOfThisCall
        /\ IF fit_history
           THEN /\ DOMAIN history = HistoryKeys
                /\ history["objective_function"] = Tail(of_values)
                /\ history["surrogate_objective_function"] = Tail(sof_values)
           ELSE DOMAIN history = {}

\* the positions of fit after _update_sigma_sq of the current iteration
AfterUpdateSigmaSq ==
    \/ pc \in {"W", "of", "sof"}
    \/ pc \in {"while", "done"} /\ n_iteration >= 1

\* C14: the variance the objective evaluation reads (self.variance) is 1.0
\* after default initialization and, once _update_sigma_sq has run, is the
\* value that update wrote (self.sigma_sq, clipped to at least EPSILON).
C14_VarianceWrittenIsRead ==
    InFit =>
        /\ n_iteration = 0 => variance = Written("1.0", 0)
        /\ AfterUpdateSigmaSq =>
              /\ sigma_sq = Written("update_sigma_sq", n_iteration)
              /\ variance = sigma_sq

\* the place of a statement of the loop body in the order the claim gives
StepPosition(c) ==
    CASE c = "alpha" -> 1
      [] c = "p"     -> 2
      [] c = "LU"    -> 3
      [] c = "L"     -> 4
      [] c = "U"     -> 5
      [] c = "sigma" -> 6
      [] c = "W"     -> 7
      [] c = "of"    -> 8
      [] c = "sof"   -> 9
      [] OTHER       -> 10

InLoopBody == pc \in {"alpha", "p", "LU", "L", "U", "sigma", "W", "of", "sof"}

\* the statement that follows the one at pc, by the claim's order and
\* conditions
ClaimedSuccessor ==
    LET embU == IF given_sample_embeddings = "None" THEN "U" ELSE "sigma"
    IN  CASE pc = "alpha" -> "p"
          [] pc = "p"     -> "LU"
          [] pc = "LU"    -> IF given_signature_embeddings = "None" THEN "L"
                             ELSE embU
          [] pc = "L"     -> IF idx < NumSignatures THEN "L" ELSE embU
          [] pc = "U"     -> IF idx < NumSamples THEN "U" ELSE "sigma"
          [] pc = "sigma" -> IF given_signatures = "None" THEN "W" ELSE "of"
          [] pc = "W"     -> "of"
          [] pc = "of"    -> "sof"
          [] OTHER        -> "while"

\* C15: within an iteration the statements run in the order sample scalings,
\* auxiliary distribution, signature embeddings (if not given), sample
\* embeddings (if not given), variance, signature matrix (if signatures not
\* given), objective, surrogate objective and convergence test, none of them
\* twice; the p which the embedding updates and the surrogate evaluation
\* use was computed in the same iteration, after the scaling update.
C15_StepOrder ==
    /\ [][InLoopBody =>
            /\ pc' = ClaimedSuccessor
            /\ n_iteration' = n_iteration
            /\ StepPosition(pc') > StepPosition(pc)
                  \/ (pc' = pc /\ pc \in {"L", "U"} /\ idx' = idx + 1)]_vars
    /\ [][pc = "while" /\ pc' \in {"alpha", "p", "LU", "L", "U", "sigma",
                                      "W", "of", "sof"}
            => pc' = "alpha" /\ n_iteration' = n_iteration + 1]_vars
    /\ [][pc = "alpha" => alpha' = Written("update_alpha", n_iteration)]_vars
    /\ [][pc = "p" => /\ alpha = Written("update_alpha", n_iteration)
                      /\ p'.at = n_iteration]_vars
    /\ [][pc = "sigma" =>
            sigma_sq' = Written("update_sigma_sq", n_iteration)]_vars
    /\ [](pc \in {"LU", "L", "U", "sigma", "W", "of", "sof"}
            => p.at = n_iteration)

C15_Witness ==
    /\ pc = "while"
    /\ n_iteration = 2
    /\ given_signatures = "None"
    /\ given_signature_embeddings = "None"
    /\ given_sample_embeddings = "None"
    /\ W = Written("update_W", 2)
    /\ p.at = 2
    /\ Len(sof_values) = 3

\* C16: when the convergence test of iteration t has run, the two values its
\* relative change was formed from, the one of iteration t and the reference
\* of iteration t - 1 (for t = 1 the value from before the loop), are both
\* values of the surrogate objective.
C16_ReferenceIsSurrogate ==
    (pc = "while" /\ n_iteration >= 1) =>
        /\ Len(sof_values) = n_iteration + 1
        /\ sof_values[n_iteration + 1].fn = "_surrogate_objective_function"
        /\ sof_values[n_iteration + 1].at = n_iteration
        /\ sof_values[n_iteration].fn = "_surrogate_objective_function"
        /\ sof_values[n_iteration].at = n_iteration - 1

\* the sub-problems one pass of _update_LU solves, in order: one per
\* signature if the signature embeddings are not given, then one per sample
\* if the sample embeddings are not given
SubproblemsOfPass ==
    [i \in 1..((IF given_signature_embeddings = "None"
                THEN NumSignatures ELSE 0)
               + (IF given_sample_embeddings = "None"
                  THEN NumSamples ELSE 0)) |->
        IF given_signature_embeddings = "None" /\ i <= NumSignatures
        THEN <<"l", i>>
        ELSE IF given_signature_embeddings = "None"
             THEN <<"u", i - NumSignatures>>
             ELSE <<"u", i>>]

PassFinished == pc \in {"sigma", "W", "of"}

\* C17: a sample-embedding sub-problem is run with maxiter = 3 and performs
\* at most 3 inner iterations; a signature-embedding sub-problem is run with
\* no maxiter option; a finished pass has solved exactly one sub-problem per
\* signature and one per sample, each set only if it is not given.
C17_InnerIterationCaps ==
    /\ res.kind = "u" => res.options = {<<"maxiter", 3>>} /\ res.nit <= 3
    /\ res.kind = "l" => res.options = {}
    /\ \A i \in DOMAIN solved : solved[i].kind = "u" => solved[i].nit <= 3
    /\ PassFinished =>
          /\ Len(solved) = Len(SubproblemsOfPass)
          /\ \A i \in DOMAIN solved :
                <<solved[i].kind, solved[i].index>> = SubproblemsOfPass[i]

C17_Witness ==
    /\ PassFinished
    /\ Len(solved) = NumSignatures + NumSamples
    /\ \E i \in DOMAIN solved : solved[i].kind = "l" /\ solved[i].nit > 3
    /\ \A i \in DOMAIN solved : solved[i].kind = "u" => solved[i].nit = 3
    /\ res.kind = "u"
    /\ res.nit = 3

\* |x| >= EPSILON for a fraction x with a positive denominator
AbsAtLeastEpsilon(x) ==
    IF x.num < 0 THEN ~ LessThanEpsilon(Negated(x)) ELSE ~ LessThanEpsilon(x)

\* C18: every coordinate of a vector _update_l or _update_u has stored has
\* absolute value at least EPSILON, whatever vector the solver returned.
C18_StoredCoordinatesAwayFromZero ==
    /\ \A c \in DOMAIN l_stored : AbsAtLeastEpsilon(l_stored[c])
    /\ \A c \in DOMAIN u_stored : AbsAtLeastEpsilon(u_stored[c])

\* C19: whatever success flag the solver reports, the clipped iterate it
\* returned is stored in the column of its sub-problem, nothing is raised,
\* and the position of fit is the one the count of solved sub-problems
\* gives: the next sub-problem of the pass, then the step after the pass.
C19_SolverFailureIgnored ==
    /\ pc # "raised"
    /\ res.kind = "l" => L[res.index] = Clipped(res.x)
    /\ res.kind = "u" => U[res.index] = Clipped(res.x)
    /\ pc \in {"L", "U"} =>
          /\ Len(solved) < Len(SubproblemsOfPass)
          /\ <<IF pc = "L" THEN "l" ELSE "u", idx>>
                = SubproblemsOfPass[Len(solved) + 1]
    /\ (pc # "LU" /\ Len(solved) = Len(SubproblemsOfPass)) => PassFinished

\* the last sub-problem of the pass used its whole budget and failed, and
\* the variance update after the pass has run
C19_Witness ==
    /\ res.kind = "u"
    /\ res.success = FALSE
    /\ res.nit = MaxiterU
    /\ res.index = NumSamples
    /\ pc = "W"
    /\ sigma_sq = Written("update_sigma_sq", n_iteration)

\* the orders in which the sub-problems of a set can be executed
Orders(S) ==
    {f \in [1..Cardinality(S) -> S] :
        \A i, j \in 1..Cardinality(S) : i # j => f[i] # f[j]}

\* L after the signature sub-problems have been executed in this order, each
\* one reading when its turn comes
RECURSIVE RunL(_, _, _)
RunL(order, Lc, Uc) ==
    IF order = << >> THEN Lc
    ELSE RunL(Tail(order),
              [Lc EXCEPT ![Head(order)] = Subproblem_l(Head(order), Lc, Uc)],
              Uc)

\* U after the sample sub-problems have been executed in this order
RECURSIVE RunU(_, _, _)
RunU(order, Lc, Uc) ==
    IF order = << >> THEN Uc
    ELSE RunU(Tail(order), Lc,
              [Uc EXCEPT ![Head(order)] = Subproblem_u(Head(order), Lc, Uc)])

\* every sub-problem reads before any of them writes
AllAtOnceL(Lc, Uc) == [k \in Signatures |-> Subproblem_l(k, Lc, Uc)]
AllAtOnceU(Lc, Uc) == [d \in Samples |-> Subproblem_u(d, Lc, Uc)]

\* C20: a signature sub-problem reads column k of L only and nothing a
\* signature sub-problem writes, and writes column k only; likewise for the
\* sample sub-problems and U.  The L (U) of a finished pass is the one any
\* order of the sub-problems, or all of them at once, gives.
C20_SubproblemsIndependent ==
    /\ \A k, j \in Signatures :
          /\ WriteLocations_l(k) = {<<"L", k>>}
          /\ k # j => ReadLocations_l(k) \cap WriteLocations_l(j) = {}
    /\ \A d, e \in Samples :
          /\ WriteLocations_u(d) = {<<"U", d>>}
          /\ d # e => ReadLocations_u(d) \cap WriteLocations_u(e) = {}
    /\ pc = "L" =>
          /\ U = U_start
          /\ \A j \in Signatures : j >= idx => L[j] = L_start[j]
    /\ pc = "U" => \A e \in Samples : e >= idx => U[e] = U_start[e]
    /\ (pc \in {"U", "sigma"} /\ given_signature_embeddings = "None") =>
          /\ L = AllAtOnceL(L_start, U_start)
          /\ \A order \in Orders(Signatures) :
                L = RunL(order, L_start, U_start)
    /\ (pc = "sigma" /\ given_sample_embeddings = "None") =>
          /\ U = AllAtOnceU(L, U_start)
          /\ \A order \in Orders(Samples) : U = RunU(order, L, U_start)

\* both sets of sub-problems have been solved and have changed every column
C20_Witness ==
    /\ pc = "sigma"
    /\ Len(solved) = NumSignatures + NumSamples
    /\ \A k \in Signatures : L[k] # L_start[k]
    /\ \A d \in Samples : U[d] # U_start[d]

\* C21: while the signature loop runs, U is the U of the start of the pass
\* and outer_prods_U are its outer products; while the sample loop runs, L is
\* not written and outer_prods_L are the outer products of that L, which is
\* the L the signature loop of the same pass left.
C21_OuterProductsCurrent ==
    /\ pc = "L" =>
          /\ U = U_start
          /\ outer_prods_U = OuterProducts(U)
          /\ outer_prods_L = NoProducts
    /\ pc = "U" =>
          /\ outer_prods_L = OuterProducts(L)
          /\ given_signature_embeddings = "None" =>
                /\ L = AllAtOnceL(L_start, U_start)
                /\ outer_prods_U = OuterProducts(U_start)
          /\ given_signature_embeddings # "None" => L = L_start
    /\ res.kind = "l" =>
          res.x.inputs[<<"outer_prods_U", 0>>]
             = OuterProducts([d \in Samples |-> res.x.inputs[<<"U", d>>]])
    /\ res.kind = "u" =>
          res.x.inputs[<<"outer_prods_L", 0>>]
             = OuterProducts([k \in Signatures |-> res.x.inputs[<<"L", k>>]])

\* the last sample sub-problem has been solved with the outer products of the
\* L that the signature loop of this pass wrote
C21_Witness ==
    /\ pc = "sigma"
    /\ res.kind = "u"
    /\ res.index = NumSamples
    /\ \A k \in Signatures : L[k] # L_start[k]
    /\ res.x.inputs[<<"outer_prods_L", 0>>] = OuterProducts(L)
    /\ outer_prods_U = OuterProducts(U_start)
    /\ U # U_start

\* the attribute _initialize sets for a key is the given value or the default
SetAsGiven(attribute, key, default) ==
    IF Has(given_parameters.items, key)
    THEN attribute = ValueOf(given_parameters.items, key)
    ELSE attribute = default

\* C22: when _initialize has returned, each of the scalings and embeddings
\* is the given value if its key is in given_parameters and its default
\* otherwise (zeros of length K and D, draws of shape K x dim_embeddings and
\* D x dim_embeddings), the variance has the given value or is 1.0, and the
\* exposures are those of the scalings and embeddings just set.
C22_InitializeGivenOrDefault ==
    pc = "initialized" =>
       /\ SetAsGiven(signature_scalings, "signature_scalings",
                     Array(<<NumSignatures>>, "zeros"))
       /\ SetAsGiven(alpha, "sample_scalings", Array(<<NumSamples>>, "zeros"))
       /\ SetAsGiven(L, "signature_embeddings",
                     Array(<<NumSignatures, dim_embeddings>>,
                           "multivariate_normal(0, I)"))
       /\ SetAsGiven(U, "sample_embeddings",
                     Array(<<NumSamples, dim_embeddings>>,
                           "multivariate_normal(0, I)"))
       /\ variance.type = "float"
       /\ IF Has(given_parameters.items, "variance")
          THEN variance.val = ValueOf(given_parameters.items, "variance").val
          ELSE variance.val = 1
       /\ exposures = CurrentExposures

\* some parameters were given and taken, the others have their defaults
C22_Witness ==
    /\ pc = "initialized"
    /\ Has(given_parameters.items, "signature_embeddings")
    /\ Has(given_parameters.items, "variance")
    /\ ~ Has(given_parameters.items, "sample_embeddings")
    /\ ~ Has(given_parameters.items, "signature_scalings")
    /\ L = Array(<<NumSignatures, dim_embeddings>>, "given")
    /\ variance = Number("float", 2)
    /\ signature_scalings = Zeros(NumSignatures)

\* x >= EPSILON for a fraction x; 0/0 is nan, which is not at least EPSILON
AtLeastEpsilon(x) == x.den > 0 /\ ~ LessThanEpsilon(x)

\* C23: every entry of the array _update_p returns is at least EPSILON, for
\* every W with non-negative and E with positive entries.
C23_AuxiliaryAtLeastEpsilon ==
    p_num # << >> => \A c \in Cells : AtLeastEpsilon(p_num[c])

\* the last two values of sof_values: the one the last convergence test
\* appended and the one it compared it with
LastSof == sof_values[Len(sof_values)].val
PrevSof == sof_values[Len(sof_values) - 1].val

\* the last convergence test has run, in an iteration n >= min_iterations,
\* on a value below the previous one
DecreaseTested ==
    /\ pc \in {"while", "done"}
    /\ Len(sof_values) >= 2
    /\ n_iteration >= min_iterations
    /\ LastSof < PrevSof

\* C24: a convergence test in an iteration n >= min_iterations on a value
\* below the previous one sets converged, for every tol > 0 and whatever the
\* size of the decrease.
C24_DecreaseConverges == DecreaseTested => converged

\* a decrease whose relative size is not below tol has ended the loop before
\* max_iterations
C24_Witness ==
    /\ DecreaseTested
    /\ converged
    /\ n_iteration < max_iterations
    /\ PrevSof # 0
    /\ (PrevSof - LastSof) * tol.den >= tol.num * Abs(PrevSof)

\* C25: from _initialize on, through every step of every iteration and
\* after fit has returned, the signature scalings are the zeros set at
\* initialization; the scaling update has written the sample scalings.
C25_SignatureScalingsNotWritten ==
    /\ pc \notin {"idle", "raised"} =>
          signature_scalings = Written("zeros", 0)
    /\ (pc \notin {"idle", "raised"} /\ n_iteration >= 1 /\ pc # "alpha") =>
          alpha = Written("update_alpha", n_iteration)

\* fit has returned after as many iterations as the bound allows
C25_Witness ==
    /\ pc = "done"
    /\ n_iteration = MaxIterBound
    /\ alpha = Written("update_alpha", MaxIterBound)
    /\ signature_scalings = Written("zeros", 0)
    /\ given_signatures = "None"
    /\ W = Written("update_W", MaxIterBound)

====
